---- MODULE Spec2Model ----
(***************************************************************************)
(* FactFinit backend: the verify route (routes/verify.ts) and the          *)
(* dual-source fact-check pipeline it calls (normalizeTranscript,          *)
(* runGeminiFactCheck, runRAGFactCheck, mergeResults).                     *)
(*                                                                         *)
(* Texts are sequences of one-character strings, so that join, slice,     *)
(* trim, includes and replace are computed as JavaScript computes them; a  *)
(* fixed string of the program (a message, the static fact, the parts of   *)
(* the prompt template) is one symbol.                                     *)
(***************************************************************************)
EXTENDS Integers, Sequences, FiniteSets, TLC

----------------------------------------------------------------------------
(* Bounds of the model *)

\* request slots of the server (handlers that may exist in one behaviour)
MaxRequests == 2

\* the slice length of the aggregator: stands for the 5000 of
\* combinedText = ... .slice(0, 5000), scaled to the bounded texts below so
\* that truncation happens
MaxCombinedLen == 4

(* Program constants *)

\* calls of checkAndVerify of the popup that may be running at one time
MaxCalls == 3

\* p-retry { retries: 3 }: attempts after the first
Retries == 3

\* .slice(0, 5000): the slice length of the aggregator, unscaled
CombinedTextLimit == 5000

Reqs == 1..MaxRequests

Calls == 1..MaxCalls

----------------------------------------------------------------------------
(* Text: String.prototype.slice / trim, Array.prototype.join *)

Min(a, b) == IF a < b THEN a ELSE b

IsWhitespace(c) == c = " "

\* s.slice(0, n)
Slice(s, n) == SubSeq(s, 1, Min(Len(s), n))

RECURSIVE TrimStart(_)
TrimStart(s) ==
  IF s = <<>> THEN <<>>
  ELSE IF IsWhitespace(Head(s)) THEN TrimStart(Tail(s)) ELSE s

RECURSIVE TrimEnd(_)
TrimEnd(s) ==
  IF s = <<>> THEN <<>>
  ELSE IF IsWhitespace(s[Len(s)]) THEN TrimEnd(SubSeq(s, 1, Len(s) - 1)) ELSE s

\* s.trim()
Trim(s) == TrimEnd(TrimStart(s))

\* texts.join(' ')
RECURSIVE Join(_)
Join(texts) ==
  IF texts = <<>> THEN <<>>
  ELSE IF Len(texts) = 1 THEN texts[1]
  ELSE texts[1] \o <<" ">> \o Join(Tail(texts))

\* xs.map(x => x.text)
TextsOf(segments) == [i \in 1..Len(segments) |-> segments[i].text]

----------------------------------------------------------------------------
(* Transcript maps: Record<string, TranscriptSegment[] | string> *)

languages == <<"en", "hi", "ta", "bn", "mr">>

\* the value under a language key: missing (undefined), a string, an array
Absent == [kind |-> "absent", segs |-> <<>>, str |-> <<>>]
Placeholder(t) == [kind |-> "string", segs |-> <<>>, str |-> t]
Segments(ss) == [kind |-> "array", segs |-> ss, str |-> <<>>]

Seg(l, t) == [text |-> t, lang |-> l]

\* JavaScript truthiness of transcript[lang]: undefined and "" are falsy, an
\* array is truthy also when it is empty
Truthy(v) == v.kind = "array" \/ (v.kind = "string" /\ v.str # <<>>)

IsArray(v) == v.kind = "array"

\* transcript[lang] && Array.isArray(transcript[lang])
IsSegmentArray(v) == Truthy(v) /\ IsArray(v)

RECURSIVE CollectFrom(_, _)
\* the for loop over languages from index i on
CollectFrom(transcript, i) ==
  IF i > Len(languages) THEN <<>>
  ELSE (IF IsSegmentArray(transcript[languages[i]])
          THEN transcript[languages[i]].segs ELSE <<>>)
       \o CollectFrom(transcript, i + 1)

\* mutant: always concatenates every language
SelectSegmentsAll(transcript) == CollectFrom(transcript, 1)

\* allSegments of normalizeTranscript
SelectSegments(transcript) ==
  IF IsSegmentArray(transcript["en"])
    THEN transcript["en"].segs
    ELSE CollectFrom(transcript, 1)

\* allSegments.map(t => t.text).join(' ').slice(0, limit).trim()
CombineTextWithin(allSegments, limit) ==
  Trim(Slice(Join(TextsOf(allSegments)), limit))

\* combinedText of normalizeTranscript, with the scaled slice length
CombineText(allSegments) == CombineTextWithin(allSegments, MaxCombinedLen)

----------------------------------------------------------------------------
(* FactCheckResult and the three components' pure parts *)

\* claims.some(claim => !claim.isAccurate)
SomeInaccurate(claims) == \E i \in 1..Len(claims) : ~claims[i].isAccurate

Verdict(text, financial, misleading, claims, sources) ==
  [normalizedTranscript |-> text, isFinancial |-> financial,
   isMisleading |-> misleading,
   factCheck |-> [claims |-> claims, sources |-> sources]]

NoTranscriptMessage == <<"No translatable transcript available">>

\* the verdict of both early returns of normalizeTranscript
UnavailableVerdict == Verdict(NoTranscriptMessage, FALSE, FALSE, <<>>, <<>>)

\* the verdict the catch block of runRAGFactCheck returns
RagDefaultVerdict(combinedText) == Verdict(combinedText, FALSE, FALSE, <<>>, <<>>)

\* mutant: the catch block answers with the "unavailable" verdict
FailureVerdictUnavailable(combinedText) == UnavailableVerdict

\* the verdict the catch block of normalizeTranscript returns
FailureVerdict(combinedText) == Verdict(combinedText, FALSE, FALSE, <<>>, <<>>)

NoResult == Verdict(<<>>, FALSE, FALSE, <<>>, <<>>)

(* ---- runGeminiFactCheck: what follows the model's response ---- *)

\* The response text after the fences and whitespace are stripped is
\*   "garbage"     no JSON: JSON.parse throws
\*   "noFactCheck" a JSON object without factCheck: .factCheck.claims throws
\*   "json"        an object of the requested shape; sources may be missing
GeminiParses(response) == response.kind = "json"

\* parsedResult as runGeminiFactCheck returns it
GeminiVerdict(response) ==
  LET claims == [i \in 1..Len(response.claims) |->
                   [claim |-> response.claims[i].claim,
                    isAccurate |-> response.claims[i].isAccurate,
                    explanation |-> response.claims[i].explanation]]
  IN Verdict(response.normalizedTranscript, response.isFinancial,
             SomeInaccurate(claims), claims,
             IF response.hasSources THEN response.sources ELSE <<>>)

(* ---- runRAGFactCheck: what follows the retrieval response ---- *)

OutOfContext == "OUT OF CONTEXT"

\* a response without a passages array makes passages.map throw
RagWellFormed(response) == response.hasPassages

SnippetsOf(passages) == [i \in 1..Len(passages) |-> passages[i].snippet]

\* mutant: the passages are not taken as authoritative
RagClaimInaccurate(p) ==
  [claim |-> p.title, isAccurate |-> FALSE,
   explanation |-> <<"Based on recent financial news: ">> \o p.snippet
                   \o <<" (Source: ", p.url, ")">>]

RagClaim(p) ==
  [claim |-> p.title, isAccurate |-> TRUE,
   explanation |-> <<"Based on recent financial news: ">> \o p.snippet
                   \o <<" (Source: ", p.url, ")">>]

RagSource(p) == [title |-> p.title, url |-> p.url, snippet |-> p.snippet]

\* the object the try block of runRAGFactCheck returns
RagVerdict(response, combinedText) ==
  LET answer == response.answer
      passages == response.passages
      claims == IF answer = OutOfContext THEN <<>>
                ELSE [i \in 1..Len(passages) |-> RagClaim(passages[i])]
  IN Verdict(IF answer = OutOfContext THEN combinedText
             ELSE IF Len(passages) > 0 THEN Join(SnippetsOf(passages))
             ELSE combinedText,
             answer # OutOfContext /\ Len(passages) > 0,
             SomeInaccurate(claims), claims,
             [i \in 1..Len(passages) |-> RagSource(passages[i])])

(* ---- mergeResults ---- *)

\* mutant: the Extractor wins whenever it judged the content financial
mergeResultsGeminiFirst(geminiResult, ragResult, combinedText) ==
  IF ragResult.isFinancial /\ Len(ragResult.factCheck.claims) > 0
     /\ ~geminiResult.isFinancial
    THEN Verdict(geminiResult.normalizedTranscript, TRUE,
                 SomeInaccurate(ragResult.factCheck.claims),
                 ragResult.factCheck.claims, ragResult.factCheck.sources)
    ELSE Verdict(geminiResult.normalizedTranscript, geminiResult.isFinancial,
                 SomeInaccurate(geminiResult.factCheck.claims),
                 geminiResult.factCheck.claims, geminiResult.factCheck.sources)

\* mutant: keeps the Extractor's isMisleading instead of recomputing it
mergeResultsKeepFlag(geminiResult, ragResult, combinedText) ==
  IF ragResult.isFinancial /\ Len(ragResult.factCheck.claims) > 0
    THEN Verdict(geminiResult.normalizedTranscript, TRUE,
                 geminiResult.isMisleading,
                 ragResult.factCheck.claims, ragResult.factCheck.sources)
    ELSE Verdict(geminiResult.normalizedTranscript, geminiResult.isFinancial,
                 geminiResult.isMisleading,
                 geminiResult.factCheck.claims, geminiResult.factCheck.sources)

mergeResults(geminiResult, ragResult, combinedText) ==
  IF ragResult.isFinancial /\ Len(ragResult.factCheck.claims) > 0
    THEN Verdict(geminiResult.normalizedTranscript, TRUE,
                 SomeInaccurate(ragResult.factCheck.claims),
                 ragResult.factCheck.claims, ragResult.factCheck.sources)
    ELSE Verdict(geminiResult.normalizedTranscript, geminiResult.isFinancial,
                 SomeInaccurate(geminiResult.factCheck.claims),
                 geminiResult.factCheck.claims, geminiResult.factCheck.sources)

(* ---- the context hint and the Extractor's prompt ---- *)

\* haystack.includes(needle)
Includes(haystack, needle) ==
  \E i \in 0..(Len(haystack) - Len(needle)) :
    SubSeq(haystack, i + 1, i + Len(needle)) = needle

\* staticFacts['gold_2015']; a fixed string of the program is one symbol
StaticGoldFact ==
  <<"Average gold price in 2015 was Rs 26,400 per 10g (Rs 2,640/g). Source: https://www.bankbazaar.com/gold-rate/gold-rate-trend-in-india.html">>

\* context of normalizeTranscript
ContextHint(combinedText, additionalContext) ==
  IF /\ Includes(combinedText, <<"g", "o", "l", "d">>)
     /\ Includes(combinedText, <<"2", "0", "1", "5">>)
    THEN StaticGoldFact ELSE additionalContext

RECURSIVE EscapeQuotes(_)
\* s.replace(/"/g, '\\"')
EscapeQuotes(s) ==
  IF s = <<>> THEN <<>>
  ELSE (IF Head(s) = "\"" THEN <<"\\", "\"">> ELSE <<Head(s)>>)
       \o EscapeQuotes(Tail(s))

\* the template before and after the interpolated input (lines 66-90 and
\* 90-100), one symbol each
PromptHead == <<"You are a professional transcript normalizer and fact-checker. [...] Input: \"">>

PromptTail == <<"\" Output format: { [...] }">>

\* prompt of runGeminiFactCheck: the template interpolates the escaped
\* combined text and nothing else; the parameter context is not used
Prompt(combinedText, context) ==
  PromptHead \o EscapeQuotes(combinedText) \o PromptTail

----------------------------------------------------------------------------
(* The inputs the collaborators may deliver *)

LangSet == {"en", "hi", "ta", "bn", "mr"}

Map(en, hi, ta, bn, mr) ==
  [l \in LangSet |-> CASE l = "en" -> en [] l = "hi" -> hi [] l = "ta" -> ta
                        [] l = "bn" -> bn [] l = "mr" -> mr]

\* Object.keys(transcript).length === 0
NoKeys(transcript) == \A l \in LangSet : transcript[l].kind = "absent"

\* the values a transcript provider may put under one language key
LangValues(l, c) ==
  {Absent, Placeholder(<<"n", "a">>), Placeholder(<<>>), Segments(<<>>),
   Segments(<<Seg(l, <<c>>)>>)}

EnglishValues ==
  LangValues("en", "e")
  \cup {Segments(<<Seg("en", <<" ">>)>>),
        Segments(<<Seg("en", <<"e", " ">>), Seg("en", <<" ", "e">>)>>),
        Segments(<<Seg("en", <<" ", "e">>), Seg("en", <<"e", "e">>)>>)}

HindiValues ==
  LangValues("hi", "h")
  \cup {Segments(<<Seg("hi", <<"h", "h">>), Seg("hi", <<>>)>>)}

\* every transcript map of the aggregator's specification
AllTranscripts ==
  {Map(en, hi, ta, bn, mr) :
     en \in EnglishValues, hi \in HindiValues,
     ta \in {Absent, Segments(<<Seg("ta", <<"t">>)>>)},
     bn \in {Absent, Segments(<<Seg("bn", <<"b">>)>>)},
     mr \in {Absent, Placeholder(<<"n", "a">>), Segments(<<Seg("mr", <<"m">>)>>)}}

\* the transcript maps of the pipeline's specification: every map above that
\* the aggregator turns into an empty text, the map without keys, and three
\* maps with text (English beside Hindi, Hindi and Tamil without English,
\* an English string placeholder beside Hindi)
Transcripts ==
  {t \in AllTranscripts : CombineText(SelectSegments(t)) = <<>>}
  \cup
  {Map(Segments(<<Seg("en", <<"e">>)>>), Segments(<<Seg("hi", <<"h">>)>>),
       Absent, Absent, Absent),
   Map(Absent, Segments(<<Seg("hi", <<"h">>)>>),
       Segments(<<Seg("ta", <<"t">>)>>), Absent, Absent),
   Map(Placeholder(<<"n", "a">>), Segments(<<Seg("hi", <<"h">>)>>),
       Absent, Absent, Absent)}

GeminiClaim(c, accurate) ==
  [claim |-> c, isAccurate |-> accurate, explanation |-> <<"x">>]

GeminiSource == [title |-> "gt", url |-> "gu", snippet |-> <<"s">>]

GeminiGarbage ==
  [kind |-> "garbage", normalizedTranscript |-> <<>>, isFinancial |-> FALSE,
   isMisleading |-> FALSE, claims |-> <<>>, hasSources |-> FALSE,
   sources |-> <<>>]

\* what generateContent may answer
GeminiResponses ==
  {GeminiGarbage, [GeminiGarbage EXCEPT !.kind = "noFactCheck"]}
  \cup [kind : {"json"}, normalizedTranscript : {<<"g">>},
        isFinancial : BOOLEAN, isMisleading : BOOLEAN,
        claims : {<<>>, <<GeminiClaim("g1", TRUE)>>,
                  <<GeminiClaim("g1", TRUE), GeminiClaim("g2", FALSE)>>},
        hasSources : {FALSE}, sources : {<<>>}]
  \cup [kind : {"json"}, normalizedTranscript : {<<"g">>},
        isFinancial : BOOLEAN, isMisleading : BOOLEAN,
        claims : {<<>>, <<GeminiClaim("g1", TRUE)>>,
                  <<GeminiClaim("g1", TRUE), GeminiClaim("g2", FALSE)>>},
        hasSources : {TRUE}, sources : {<<GeminiSource>>}]

\* English texts about gold and 2015: the words, their fragments, a space
\* and a quotation mark, up to three in a row (all short of the slice length)
GoldWords ==
  {<<"g", "o", "l", "d">>, <<"2", "0", "1", "5">>, <<"g">>, <<"o", "l", "d">>,
   <<" ">>, <<"\"">>}

GoldTexts ==
  GoldWords
  \cup {a \o b : a \in GoldWords, b \in GoldWords}
  \cup {a \o b \o c : a \in GoldWords, b \in GoldWords, c \in GoldWords}

\* the transcript maps of the prompt's specification: one English segment
GoldTranscripts ==
  {Map(Segments(<<Seg("en", text)>>), Absent, Absent, Absent, Absent) :
     text \in GoldTexts}

Passage1 == [title |-> "title1", url |-> "url1", snippet |-> <<"p">>]

Passage2 == [title |-> "title2", url |-> "url2", snippet |-> <<"q">>]

\* what the retrieval service may answer
RagResponses ==
  [answer : {OutOfContext, "answer"}, hasPassages : {TRUE},
   passages : {<<>>, <<Passage1>>, <<Passage1, Passage2>>}]
  \cup {[answer |-> "answer", hasPassages |-> FALSE, passages |-> <<>>]}

URLs == {"https://youtu.be/a", "https://youtu.be/b"}

\* the inputs of the two-request specification: one English transcript, a
\* generative model that answers garbage or a financial verdict with an
\* inaccurate claim, and a retrieval service that answers one passage, the
\* sentinel or a response without passages
SmallTranscripts ==
  {Map(Segments(<<Seg("en", <<"e">>)>>), Absent, Absent, Absent, Absent)}

SmallGeminiResponses ==
  {GeminiGarbage,
   [kind |-> "json", normalizedTranscript |-> <<"g">>, isFinancial |-> TRUE,
    isMisleading |-> FALSE,
    claims |-> <<GeminiClaim("g1", TRUE), GeminiClaim("g2", FALSE)>>,
    hasSources |-> TRUE, sources |-> <<GeminiSource>>]}

SmallRagResponses ==
  {[answer |-> "answer", hasPassages |-> TRUE, passages |-> <<Passage1>>],
   [answer |-> OutOfContext, hasPassages |-> TRUE, passages |-> <<>>],
   [answer |-> "answer", hasPassages |-> FALSE, passages |-> <<>>]}

----------------------------------------------------------------------------
(* State *)

VARIABLES
  db,        \* the TranscriptModel collection: the stored documents, in order
  log,       \* fact_checker_errors.log: the entries appended so far
  arrivals,  \* verify requests that may still arrive
  rt,        \* per request: the route handler (router.post in verify.ts)
  nt,        \* per request: its call of normalizeTranscript
  gem,       \* per request: its call of runGeminiFactCheck
  rag,       \* per request: its call of runRAGFactCheck
  popup      \* the extension's popup (popup.js): its page and its calls

vars == <<db, log, arrivals, rt, nt, gem, rag, popup>>

NoResponse == [status |-> 0, message |-> "", data |-> NoResult]

IdleRoute == [pc |-> "idle", url |-> "", response |-> NoResponse]

IdleNormalize ==
  [pc |-> "idle", transcript |-> Map(Absent, Absent, Absent, Absent, Absent),
   combinedText |-> <<>>, context |-> <<>>, result |-> NoResult]

\* no response of the generative model has arrived
NoGeminiResponse == [GeminiGarbage EXCEPT !.kind = "none"]

IdleGemini ==
  [pc |-> "idle", attempts |-> 0, prompt |-> <<>>, response |-> NoGeminiResponse,
   result |-> NoResult]

NoRagResponse == [answer |-> "", hasPassages |-> FALSE, passages |-> <<>>]

IdleRag ==
  [pc |-> "idle", attempts |-> 0, response |-> NoRagResponse, result |-> NoResult]

(* ---- the popup (popup.js) ---- *)

\* the patterns of isVideoUrl; a URL is a sequence of symbols, and a pattern
\* matches a URL that holds its symbol
VideoPatterns ==
  {"youtube.com/watch?v=", "youtu.be/", "youtube.com/shorts/",
   "youtube.com/embed/", "youtube.com/live/",
   "instagram.com/p/", "instagram.com/reel/"}

isVideoUrl(url) == \E i \in DOMAIN url : url[i] \in VideoPatterns

\* what chrome.tabs.query may deliver: an active tab with a URL or without
\* one, no tab at all, or a rejection
TabURLs ==
  {<<"https://www.", "youtube.com/watch?v=", "a">>,
   <<"https://www.", "instagram.com/reel/", "b">>,
   <<"https://", "example.com/">>,
   <<>>}

TabOutcomes ==
  [kind : {"tab"}, url : TabURLs]
  \cup {[kind |-> "noTab", url |-> <<>>], [kind |-> "rejected", url |-> <<>>]}

\* tab.url || 'No URL found'
currentUrl(tab) == IF tab.url = <<>> THEN <<"No URL found">> ELSE tab.url

\* a call of checkAndVerify that is not running
IdleCall == [pc |-> "idle", url |-> <<>>, ok |-> FALSE]

\* the popup before it is opened
ClosedPopup ==
  [page |-> "closed", disabled |-> FALSE, loading |-> FALSE,
   urlDiv |-> <<>>, responseDiv |-> "", calls |-> [c \in Calls |-> IdleCall]]

\* the document of the popup is loaded and its handler has not run yet
LoadedPopup == [ClosedPopup EXCEPT !.page = "loaded"]

\* the document TranscriptModel.create is given (lines 98-108): the verdict's
\* fields, with isMisleading recomputed by the route
RouteDocument(url, transcript, factCheckResult) ==
  [videoURL |-> url, transcript |-> transcript,
   normalizedTranscript |-> factCheckResult.normalizedTranscript,
   isFinancial |-> factCheckResult.isFinancial,
   isMisleading |-> SomeInaccurate(factCheckResult.factCheck.claims),
   factCheck |-> factCheckResult.factCheck]

\* the data of a 200 response, from a stored or a fresh document
ResponseData(doc) ==
  Verdict(doc.normalizedTranscript, doc.isFinancial, doc.isMisleading,
          doc.factCheck.claims, doc.factCheck.sources)

\* TranscriptModel.findOne({ videoURL }): the first stored document of the URL
FindOne(url) == SelectSeq(db, LAMBDA d : d.videoURL = url)

\* documents an earlier run of the server left in the collection
EarlierDocuments ==
  LET t == Map(Segments(<<Seg("en", <<"e">>)>>), Absent, Absent, Absent, Absent)
      g == [kind |-> "json", normalizedTranscript |-> <<"g">>,
            isFinancial |-> TRUE, isMisleading |-> FALSE,
            claims |-> <<GeminiClaim("g1", TRUE), GeminiClaim("g2", FALSE)>>,
            hasSources |-> TRUE, sources |-> <<GeminiSource>>]
      r == [answer |-> OutOfContext, hasPassages |-> TRUE, passages |-> <<>>]
  IN {RouteDocument("https://youtu.be/a", t,
                    mergeResults(GeminiVerdict(g), RagVerdict(r, <<"e">>), <<"e">>)),
      RouteDocument("https://youtu.be/a",
                    Map(Placeholder(<<"n", "a">>), Absent, Absent, Absent, Absent),
                    UnavailableVerdict)}

\* The server has started: no handler runs, the error log is empty, and the
\* collection is empty or holds a document of an earlier verification. One
\* verify request is to arrive.
Init ==
  /\ db \in {<<>>} \cup {<<d>> : d \in EarlierDocuments}
  /\ log = <<>>
  /\ arrivals = 1
  /\ rt = [r \in Reqs |-> IdleRoute]
  /\ nt = [r \in Reqs |-> IdleNormalize]
  /\ gem = [r \in Reqs |-> IdleGemini]
  /\ rag = [r \in Reqs |-> IdleRag]
  /\ popup = ClosedPopup

----------------------------------------------------------------------------
(* The route handler up to the call of normalizeTranscript *)

\* POST /api/verify arrives with a valid, canonical video URL; the handler
\* runs to its first await, TranscriptModel.findOne
Request(r) ==
  /\ arrivals > 0
  /\ rt[r].pc = "idle"
  /\ \A q \in Reqs : q < r => rt[q].pc # "idle"
  /\ \E u \in URLs : rt' = [rt EXCEPT ![r] = [IdleRoute EXCEPT !.pc = "findOne", !.url = u]]
  /\ arrivals' = arrivals - 1
  /\ UNCHANGED <<db, log, nt, gem, rag, popup>>

\* mutant: the lookup is ignored and the transcript is fetched
FindOneReturnsFetches(r) ==
  /\ rt[r].pc = "findOne"
  /\ rt' = [rt EXCEPT ![r] = [@ EXCEPT !.pc = "fetch"]]
  /\ UNCHANGED <<db, log, arrivals, nt, gem, rag, popup>>

\* findOne answers: a stored document is responded as it is (lines 55-67),
\* otherwise the transcript is fetched (lines 69-89)
FindOneReturns(r) ==
  /\ rt[r].pc = "findOne"
  /\ rt' = [rt EXCEPT ![r] =
        IF FindOne(rt[r].url) # <<>>
          THEN [@ EXCEPT !.pc = "done",
                  !.response = [status |-> 200,
                     message |-> "Verification results retrieved from cache",
                     data |-> ResponseData(FindOne(rt[r].url)[1])]]
          ELSE [@ EXCEPT !.pc = "fetch"]]
  /\ UNCHANGED <<db, log, arrivals, nt, gem, rag, popup>>

\* the transcript fetch throws (or no video id is found): next(error)
FetchThrows(r) ==
  /\ rt[r].pc = "fetch"
  /\ rt' = [rt EXCEPT ![r] = [@ EXCEPT !.pc = "done",
               !.response = [status |-> 500, message |-> "error", data |-> NoResult]]]
  /\ UNCHANGED <<db, log, arrivals, nt, gem, rag, popup>>

----------------------------------------------------------------------------
(* normalizeTranscript and the two calls it dispatches.                    *)
(*                                                                         *)
(* A promise's continuations run as microtasks, before the next I/O event  *)
(* is handled: the event that settles a call also runs the catch block of  *)
(* the component, the continuation of Promise.all in normalizeTranscript   *)
(* and the route's code up to its next await, in one step.                 *)

\* logError(message, { error, transcript }): the entry appended to the log
LogEntry(message, combinedText) == [message |-> message, transcript |-> combinedText]

\* mutant: returns early only when no segment was selected
ShortCircuitsNoSegments(allSegments, combinedText) == Len(allSegments) = 0

\* allSegments.length === 0, or !combinedText
ShortCircuits(allSegments, combinedText) ==
  Len(allSegments) = 0 \/ combinedText = <<>>

\* the route after normalizeTranscript returned (line 98 on): it awaits
\* TranscriptModel.create
RouteAfterVerdict(route) == [route EXCEPT !.pc = "create"]

\* the route's catch when normalizeTranscript rejected: next(error)
RouteAfterRejection(route) ==
  [route EXCEPT !.pc = "done",
     !.response = [status |-> 500, message |-> "error", data |-> NoResult]]

\* The provider delivers a transcript map (one of T). Without keys the route
\* answers 404; otherwise normalizeTranscript(transcript) runs to its first
\* await: it returns the "unavailable" verdict, or chooses the context hint
\* (additionalContext is '', the route passes none) and starts both calls
\* (their first attempts are issued before either is awaited). limit is the
\* slice length of combinedText.
FetchReturnsWith(r, T, limit) ==
  /\ rt[r].pc = "fetch"
  /\ \E t \in T :
       LET allSegments == SelectSegments(t)
           combinedText == CombineTextWithin(allSegments, limit)
           context == ContextHint(combinedText, <<>>)
       IN IF NoKeys(t)
            THEN /\ rt' = [rt EXCEPT ![r] = [@ EXCEPT !.pc = "done",
                        !.response = [status |-> 404,
                           message |-> "Transcript not found for this video.",
                           data |-> NoResult]]]
                 /\ UNCHANGED <<nt, gem, rag>>
            ELSE IF ShortCircuits(allSegments, combinedText)
            THEN /\ nt' = [nt EXCEPT ![r] =
                        [pc |-> "returned", transcript |-> t,
                         combinedText |-> combinedText, context |-> <<>>,
                         result |-> UnavailableVerdict]]
                 /\ rt' = [rt EXCEPT ![r] = RouteAfterVerdict(@)]
                 /\ UNCHANGED <<gem, rag>>
            ELSE /\ nt' = [nt EXCEPT ![r] =
                        [pc |-> "awaiting", transcript |-> t,
                         combinedText |-> combinedText, context |-> context,
                         result |-> NoResult]]
                 /\ gem' = [gem EXCEPT ![r] = [@ EXCEPT !.pc = "inflight", !.attempts = 1,
                                                       !.prompt = Prompt(combinedText, context)]]
                 /\ rag' = [rag EXCEPT ![r] = [@ EXCEPT !.pc = "inflight", !.attempts = 1]]
                 /\ rt' = [rt EXCEPT ![r] = [@ EXCEPT !.pc = "pipeline"]]
  /\ UNCHANGED <<db, log, arrivals, popup>>

FetchReturns(r, T) == FetchReturnsWith(r, T, MaxCombinedLen)

\* mutant: does not wait for the Fact Source
PromiseAllExtractorOnly(g, f) ==
  IF g.pc = "rejected" \/ f.pc = "rejected" THEN "rejected"
  ELSE IF g.pc = "resolved" THEN "fulfilled"
  ELSE "pending"

\* Promise.all([runGeminiFactCheck(..), runRAGFactCheck(..)]): rejected as
\* soon as one of the two rejects, fulfilled when both have resolved
PromiseAll(g, f) ==
  IF g.pc = "rejected" \/ f.pc = "rejected" THEN "rejected"
  ELSE IF g.pc = "resolved" /\ f.pc = "resolved" THEN "fulfilled"
  ELSE "pending"

\* The rest of the step after one call of request r changed to g2 / f2 and
\* the log to log1: if normalizeTranscript is still awaiting and Promise.all
\* settles, its try block returns mergeResults(..) or its catch block logs
\* (which appendFileSync may refuse: ntLogOk) and returns the default verdict.
Settle(r, g2, f2, log1, ntLogOk) ==
  LET all == PromiseAll(g2, f2)
      text == nt[r].combinedText
  IN /\ gem' = [gem EXCEPT ![r] = g2]
     /\ rag' = [rag EXCEPT ![r] = f2]
     /\ IF nt[r].pc = "awaiting" /\ all = "fulfilled"
          THEN /\ nt' = [nt EXCEPT ![r] = [@ EXCEPT !.pc = "returned",
                       !.result = mergeResults(g2.result, f2.result, text)]]
               /\ rt' = [rt EXCEPT ![r] = RouteAfterVerdict(@)]
               /\ log' = log1
          ELSE IF nt[r].pc = "awaiting" /\ all = "rejected"
          THEN IF ntLogOk
                 THEN /\ nt' = [nt EXCEPT ![r] = [@ EXCEPT !.pc = "returned",
                              !.result = FailureVerdict(text)]]
                      /\ rt' = [rt EXCEPT ![r] = RouteAfterVerdict(@)]
                      /\ log' = Append(log1, LogEntry("Fact-checking failure", text))
                 ELSE /\ nt' = [nt EXCEPT ![r] = [@ EXCEPT !.pc = "rejected"]]
                      /\ rt' = [rt EXCEPT ![r] = RouteAfterRejection(@)]
                      /\ log' = log1
          ELSE /\ log' = log1
               /\ UNCHANGED <<nt, rt>>
     /\ UNCHANGED <<db, arrivals, popup>>

\* the outcomes of the log write in normalizeTranscript's catch that a step
\* has to consider
NormalizeLogOutcomes(r, g2, f2) ==
  IF nt[r].pc = "awaiting" /\ PromiseAll(g2, f2) = "rejected" THEN BOOLEAN ELSE {TRUE}

\* the catch block of runGeminiFactCheck: logError, then throw; the call
\* rejects whether the log write succeeds or throws itself
GeminiCatch(r, g2) ==
  \E geminiLogOk \in BOOLEAN :
    LET log1 == IF geminiLogOk
                  THEN Append(log, LogEntry("Gemini fact-check failed", nt[r].combinedText))
                  ELSE log
    IN \E ntLogOk \in NormalizeLogOutcomes(r, g2, rag[r]) :
         Settle(r, g2, rag[r], log1, ntLogOk)

\* mutant: p-retry retries once more
GeminiAttemptFailsAgain(r) ==
  /\ gem[r].pc = "inflight"
  /\ gem[r].attempts <= Retries + 1
  /\ gem' = [gem EXCEPT ![r] = [@ EXCEPT !.pc = "backoff"]]
  /\ UNCHANGED <<db, log, arrivals, rt, nt, rag, popup>>

\* an attempt of generateContent fails and p-retry has retries left
GeminiAttemptFails(r) ==
  /\ gem[r].pc = "inflight"
  /\ gem[r].attempts <= Retries
  /\ gem' = [gem EXCEPT ![r] = [@ EXCEPT !.pc = "backoff"]]
  /\ UNCHANGED <<db, log, arrivals, rt, nt, rag, popup>>

\* the backoff timer of p-retry fires: the next attempt is issued
GeminiRetry(r) ==
  /\ gem[r].pc = "backoff"
  /\ gem' = [gem EXCEPT ![r] = [@ EXCEPT !.pc = "inflight", !.attempts = @ + 1]]
  /\ UNCHANGED <<db, log, arrivals, rt, nt, rag, popup>>

\* the last attempt fails: pRetry rejects into the catch block
GeminiExhausted(r) ==
  /\ gem[r].pc = "inflight"
  /\ gem[r].attempts = Retries + 1
  /\ GeminiCatch(r, [gem[r] EXCEPT !.pc = "rejected"])

\* generateContent answers (one of Responses): the response parses into the
\* Extractor's verdict, or JSON.parse / the property accesses throw into the
\* catch block
GeminiRespondsWith(r, Responses) ==
  /\ gem[r].pc = "inflight"
  /\ \E response \in Responses :
       IF GeminiParses(response)
         THEN Settle(r, [gem[r] EXCEPT !.pc = "resolved", !.response = response,
                                       !.result = GeminiVerdict(response)],
                     rag[r], log, TRUE)
         ELSE GeminiCatch(r, [gem[r] EXCEPT !.pc = "rejected", !.response = response])

GeminiResponds(r) == GeminiRespondsWith(r, GeminiResponses)

\* the catch block of runRAGFactCheck: logError, then the default verdict is
\* returned; if the log write throws, the call rejects instead
RagCatch(r, f0) ==
  \E ragLogOk \in BOOLEAN :
    LET f2 == IF ragLogOk
                THEN [f0 EXCEPT !.pc = "resolved",
                                !.result = RagDefaultVerdict(nt[r].combinedText)]
                ELSE [f0 EXCEPT !.pc = "rejected"]
        log1 == IF ragLogOk
                  THEN Append(log, LogEntry("RAG fact-check failed", nt[r].combinedText))
                  ELSE log
    IN \E ntLogOk \in NormalizeLogOutcomes(r, gem[r], f2) :
         Settle(r, gem[r], f2, log1, ntLogOk)

\* an attempt of axios.post fails and p-retry has retries left
RagAttemptFails(r) ==
  /\ rag[r].pc = "inflight"
  /\ rag[r].attempts <= Retries
  /\ rag' = [rag EXCEPT ![r] = [@ EXCEPT !.pc = "backoff"]]
  /\ UNCHANGED <<db, log, arrivals, rt, nt, gem, popup>>

\* the backoff timer of p-retry fires: the next attempt is issued
RagRetry(r) ==
  /\ rag[r].pc = "backoff"
  /\ rag' = [rag EXCEPT ![r] = [@ EXCEPT !.pc = "inflight", !.attempts = @ + 1]]
  /\ UNCHANGED <<db, log, arrivals, rt, nt, gem, popup>>

\* the last attempt fails: pRetry rejects into the catch block
RagExhausted(r) ==
  /\ rag[r].pc = "inflight"
  /\ rag[r].attempts = Retries + 1
  /\ RagCatch(r, rag[r])

\* the retrieval service answers (one of Responses): the verdict is derived
\* from the passages, or a response without passages throws into the catch
\* block
RagRespondsWith(r, Responses) ==
  /\ rag[r].pc = "inflight"
  /\ \E response \in Responses :
       IF RagWellFormed(response)
         THEN Settle(r, gem[r],
                     [rag[r] EXCEPT !.pc = "resolved", !.response = response,
                        !.result = RagVerdict(response, nt[r].combinedText)],
                     log, TRUE)
         ELSE RagCatch(r, [rag[r] EXCEPT !.response = response])

RagResponds(r) == RagRespondsWith(r, RagResponses)

----------------------------------------------------------------------------
(* The route handler after normalizeTranscript *)

\* TranscriptModel.create(document) on the collection: the document is added;
\* the schema enforces no uniqueness of videoURL
Create(collection, document) == Append(collection, document)

\* mutant: the document is stored only when none is stored for the URL
CreateReturnsOnce(r) ==
  /\ rt[r].pc = "create"
  /\ LET doc == RouteDocument(rt[r].url, nt[r].transcript, nt[r].result)
     IN /\ db' = IF FindOne(rt[r].url) = <<>> THEN Create(db, doc) ELSE db
        /\ rt' = [rt EXCEPT ![r] = [@ EXCEPT !.pc = "done",
                     !.response = [status |-> 200,
                                   message |-> "Video verified successfully",
                                   data |-> ResponseData(doc)]]]
  /\ UNCHANGED <<log, arrivals, nt, gem, rag, popup>>

\* TranscriptModel.create stores the document; the route answers 200 with it
CreateReturns(r) ==
  /\ rt[r].pc = "create"
  /\ LET doc == RouteDocument(rt[r].url, nt[r].transcript, nt[r].result)
     IN /\ db' = Create(db, doc)
        /\ rt' = [rt EXCEPT ![r] = [@ EXCEPT !.pc = "done",
                     !.response = [status |-> 200,
                                   message |-> "Video verified successfully",
                                   data |-> ResponseData(doc)]]]
  /\ UNCHANGED <<log, arrivals, nt, gem, rag, popup>>

Next ==
  \E r \in Reqs :
    \/ Request(r)
    \/ FindOneReturns(r)
    \/ FetchThrows(r)
    \/ FetchReturns(r, Transcripts)
    \/ GeminiAttemptFails(r)
    \/ GeminiRetry(r)
    \/ GeminiExhausted(r)
    \/ GeminiResponds(r)
    \/ RagAttemptFails(r)
    \/ RagRetry(r)
    \/ RagExhausted(r)
    \/ RagResponds(r)
    \/ CreateReturns(r)

Spec == Init /\ [][Next]_vars

\* The aggregator over every transcript map of AllTranscripts: the handler
\* up to the synchronous part of normalizeTranscript, and the early returns
\* on to their response.
NextAggregator ==
  \E r \in Reqs :
    \/ Request(r)
    \/ FindOneReturns(r)
    \/ FetchReturns(r, AllTranscripts)
    \/ CreateReturns(r)

SpecAggregator == Init /\ [][NextAggregator]_vars

\* The handler up to the dispatch of the two calls, over the transcripts
\* about gold and 2015, with the slice length of the program (the texts are
\* short of it).
NextPrompt ==
  \E r \in Reqs :
    \/ Request(r)
    \/ FindOneReturns(r)
    \/ FetchReturnsWith(r, GoldTranscripts, CombinedTextLimit)

SpecPrompt == Init /\ [][NextPrompt]_vars

\* Two verify requests on an empty collection, one after the other or
\* overlapping, for the same URL or for two; the generative model may fail
\* and be retried, the retrieval service answers its first attempt (with a
\* response that may lack the passages).
InitTwoRequests ==
  /\ db = <<>>
  /\ log = <<>>
  /\ arrivals = 2
  /\ rt = [r \in Reqs |-> IdleRoute]
  /\ nt = [r \in Reqs |-> IdleNormalize]
  /\ gem = [r \in Reqs |-> IdleGemini]
  /\ rag = [r \in Reqs |-> IdleRag]
  /\ popup = ClosedPopup

NextTwoRequests ==
  \E r \in Reqs :
    \/ Request(r)
    \/ FindOneReturns(r)
    \/ FetchReturns(r, SmallTranscripts)
    \/ GeminiAttemptFails(r)
    \/ GeminiRetry(r)
    \/ GeminiExhausted(r)
    \/ GeminiRespondsWith(r, SmallGeminiResponses)
    \/ RagRespondsWith(r, SmallRagResponses)
    \/ CreateReturns(r)

SpecTwoRequests == InitTwoRequests /\ [][NextTwoRequests]_vars

----------------------------------------------------------------------------
(* The popup of the extension (popup.js).                                  *)
(*                                                                         *)
(* popup.page is the position of the DOMContentLoaded handler: "loaded"    *)
(* before it runs, "initial" while it awaits the first checkAndVerify,     *)
(* "listening" once the click listeners are registered. A call of          *)
(* checkAndVerify is at "query" (awaiting chrome.tabs.query), at "fetch"   *)
(* (verifyVideo awaiting fetch) or at "json" (awaiting response.json()).   *)

\* a call of checkAndVerify has ended: its slot is free again, and if it was
\* the call the DOMContentLoaded handler awaits (line 146), the handler goes
\* on and registers the listeners (lines 149-152)
CallEnds(p, c) ==
  [p EXCEPT !.calls[c] = IdleCall,
            !.page = IF p.page = "initial" THEN "listening" ELSE p.page]

\* the finally block of verifyVideo (lines 97-100), then the call ends
VerifyVideoEnds(p, c, shown) ==
  CallEnds([p EXCEPT !.responseDiv = shown, !.loading = FALSE,
                     !.disabled = FALSE], c)

\* DOMContentLoaded: the handler calls checkAndVerify, which runs to its
\* first await, chrome.tabs.query
DOMContentLoaded ==
  /\ popup.page = "loaded"
  /\ popup' = [popup EXCEPT !.page = "initial", !.calls[1].pc = "query"]
  /\ UNCHANGED <<db, log, arrivals, rt, nt, gem, rag>>

\* a click on the re-verify button, which the browser delivers only while
\* the button is enabled: checkAndVerify runs to its first await
Click ==
  /\ popup.page = "listening"
  /\ ~popup.disabled
  /\ \E c \in Calls :
       /\ popup.calls[c].pc = "idle"
       /\ \A d \in Calls : d < c => popup.calls[d].pc # "idle"
       /\ popup' = [popup EXCEPT !.calls[c].pc = "query"]
  /\ UNCHANGED <<db, log, arrivals, rt, nt, gem, rag>>

\* chrome.tabs.query settles: the catch block (lines 138-142), the page that
\* is no video (lines 130-134), or verifyVideo up to its fetch (lines 136,
\* 57-76)
QueryReturns(c) ==
  /\ popup.calls[c].pc = "query"
  /\ \E tab \in TabOutcomes :
       popup' =
         IF tab.kind # "tab"
           THEN CallEnds([popup EXCEPT !.urlDiv = <<"Error getting URL: ">>,
                                       !.responseDiv = "Unable to load the video URL.",
                                       !.disabled = TRUE], c)
         ELSE IF ~isVideoUrl(currentUrl(tab))
           THEN CallEnds([popup EXCEPT !.urlDiv = <<"Current URL: ">> \o currentUrl(tab),
                                       !.responseDiv = "Please open a YouTube or Instagram video page.",
                                       !.disabled = TRUE], c)
         ELSE [popup EXCEPT !.urlDiv = <<"Current URL: ">> \o currentUrl(tab),
                            !.loading = TRUE,
                            !.responseDiv = "skeleton-loader",
                            !.disabled = TRUE,
                            !.calls[c] = [pc |-> "fetch", url |-> currentUrl(tab),
                                          ok |-> FALSE]]
  /\ UNCHANGED <<db, log, arrivals, rt, nt, gem, rag>>

\* fetch resolves with a response, whose body is then awaited
FetchResolves(c) ==
  /\ popup.calls[c].pc = "fetch"
  /\ \E ok \in BOOLEAN :
       popup' = [popup EXCEPT !.calls[c].pc = "json", !.calls[c].ok = ok]
  /\ UNCHANGED <<db, log, arrivals, rt, nt, gem, rag>>

\* fetch rejects (the server cannot be reached): catch and finally
FetchRejects(c) ==
  /\ popup.calls[c].pc = "fetch"
  /\ popup' = VerifyVideoEnds(popup, c, "error")
  /\ UNCHANGED <<db, log, arrivals, rt, nt, gem, rag>>

\* response.json() settles: the verdict is shown when the response was ok
\* and its body has the shape formatResponse reads; otherwise an error is
\* thrown into the catch block; then finally
JsonReturns(c) ==
  /\ popup.calls[c].pc = "json"
  /\ \E body \in {"verdict", "malformed", "rejected"} :
       popup' = VerifyVideoEnds(popup, c,
                  IF popup.calls[c].ok /\ body = "verdict" THEN "verdict" ELSE "error")
  /\ UNCHANGED <<db, log, arrivals, rt, nt, gem, rag>>

\* The popup is opened while the server is idle; the re-verify button of the
\* document may or may not carry the disabled attribute.
InitPopup ==
  /\ db = <<>>
  /\ log = <<>>
  /\ arrivals = 0
  /\ rt = [r \in Reqs |-> IdleRoute]
  /\ nt = [r \in Reqs |-> IdleNormalize]
  /\ gem = [r \in Reqs |-> IdleGemini]
  /\ rag = [r \in Reqs |-> IdleRag]
  /\ popup \in {[LoadedPopup EXCEPT !.disabled = d] : d \in BOOLEAN}

NextPopup ==
  \/ DOMContentLoaded
  \/ Click
  \/ \E c \in Calls :
       \/ QueryReturns(c)
       \/ FetchResolves(c)
       \/ FetchRejects(c)
       \/ JsonReturns(c)

SpecPopup == InitPopup /\ [][NextPopup]_vars

----------------------------------------------------------------------------
(* Properties *)

\* C1 (precedence law): in every run in which the Extractor returned a
\* result and the Fact Source returned isFinancial = true with at least one
\* claim, normalizeTranscript has returned a verdict with isFinancial = true
\* whose claims and sources are exactly the Fact Source's, whatever the
\* Extractor returned.
PrecedenceLaw ==
  \A r \in Reqs :
    (/\ gem[r].pc = "resolved"
     /\ rag[r].pc = "resolved"
     /\ rag[r].result.isFinancial = TRUE
     /\ Len(rag[r].result.factCheck.claims) >= 1)
    => /\ nt[r].pc = "returned"
       /\ nt[r].result.isFinancial = TRUE
       /\ nt[r].result.factCheck.claims = rag[r].result.factCheck.claims
       /\ nt[r].result.factCheck.sources = rag[r].result.factCheck.sources

\* C1 witness: the Extractor said non-financial, the Fact Source returned one
\* claim, and the returned verdict is financial with one claim
PrecedenceLawWitness ==
  \E r \in Reqs :
    /\ gem[r].pc = "resolved"
    /\ gem[r].result.isFinancial = FALSE
    /\ rag[r].pc = "resolved"
    /\ Len(rag[r].result.factCheck.claims) = 1
    /\ nt[r].pc = "returned"
    /\ nt[r].result.isFinancial = TRUE
    /\ Len(nt[r].result.factCheck.claims) = 1

\* C2 (isMisleading invariant): every verdict normalizeTranscript returned,
\* every stored document and every 200 response has isMisleading equal to
\* "some claim of its factCheck.claims has isAccurate = false", whatever
\* isMisleading the generative model reported.
IsMisleadingInvariant ==
  /\ \A r \in Reqs :
       nt[r].pc = "returned" =>
         (nt[r].result.isMisleading
            <=> \E i \in DOMAIN nt[r].result.factCheck.claims :
                  nt[r].result.factCheck.claims[i].isAccurate = FALSE)
  /\ \A k \in DOMAIN db :
       db[k].isMisleading
         <=> \E i \in DOMAIN db[k].factCheck.claims :
               db[k].factCheck.claims[i].isAccurate = FALSE
  /\ \A r \in Reqs :
       rt[r].response.status = 200 =>
         (rt[r].response.data.isMisleading
            <=> \E i \in DOMAIN rt[r].response.data.factCheck.claims :
                  rt[r].response.data.factCheck.claims[i].isAccurate = FALSE)

\* C2 witness: a verdict was merged, stored and responded whose isMisleading
\* differs from the flag the generative model reported
IsMisleadingWitness ==
  \E r \in Reqs :
    /\ gem[r].pc = "resolved"
    /\ nt[r].pc = "returned"
    /\ rt[r].pc = "done"
    /\ rt[r].response.status = 200
    /\ gem[r].response.isMisleading # rt[r].response.data.isMisleading
    /\ \E k \in DOMAIN db :
         /\ db[k].videoURL = rt[r].url
         /\ db[k].isMisleading = nt[r].result.isMisleading
         /\ db[k].factCheck = nt[r].result.factCheck
         /\ db[k].factCheck.claims # <<>>

\* C3 (non-financial emptiness), as claimed: the Fact Source's result and the
\* verdict normalizeTranscript returns have no claims and no sources when
\* isFinancial is false.
NonFinancialEmptiness ==
  \A r \in Reqs :
    /\ (rag[r].pc = "resolved" /\ ~rag[r].result.isFinancial)
         => /\ rag[r].result.factCheck.claims = <<>>
            /\ rag[r].result.factCheck.sources = <<>>
    /\ (nt[r].pc = "returned" /\ ~nt[r].result.isFinancial)
         => /\ nt[r].result.factCheck.claims = <<>>
            /\ nt[r].result.factCheck.sources = <<>>

\* C4 (the pipeline never raises), as claimed: no call of normalizeTranscript
\* ends by rejecting.
NeverRaises == \A r \in Reqs : nt[r].pc # "rejected"

FactSourceSwallowed ==
  \A r \in Reqs :
    LET failed == /\ rag[r].pc \in {"resolved", "rejected"}
                  /\ ~RagWellFormed(rag[r].response)
    IN /\ rag[r].pc # "rejected"
       /\ failed =>
            rag[r].result =
              [normalizedTranscript |-> nt[r].combinedText, isFinancial |-> FALSE,
               isMisleading |-> FALSE,
               factCheck |-> [claims |-> <<>>, sources |-> <<>>]]
       /\ (failed /\ gem[r].pc = "resolved" /\ nt[r].pc = "returned")
            => /\ nt[r].result.isFinancial = gem[r].result.isFinancial
               /\ nt[r].result.factCheck = gem[r].result.factCheck
       /\ (failed /\ gem[r].pc # "rejected" /\ nt[r].pc = "returned")
            => gem[r].pc = "resolved"

EmptyShortCircuit ==
  \A r \in Reqs :
    (nt[r].pc # "idle" /\ nt[r].combinedText = <<>>)
    => /\ nt[r].pc = "returned"
       /\ nt[r].result =
            [normalizedTranscript |-> <<"No translatable transcript available">>,
             isFinancial |-> FALSE, isMisleading |-> FALSE,
             factCheck |-> [claims |-> <<>>, sources |-> <<>>]]
       /\ gem[r].pc = "idle" /\ gem[r].attempts = 0
       /\ rag[r].pc = "idle" /\ rag[r].attempts = 0

\* C8 witness: segments were selected, their text is whitespace only, and the
\* request was answered
EmptyShortCircuitWitness ==
  \E r \in Reqs :
    /\ rt[r].pc = "done"
    /\ nt[r].pc = "returned"
    /\ nt[r].combinedText = <<>>
    /\ nt[r].transcript["en"].kind = "array"
    /\ nt[r].transcript["en"].segs # <<>>

\* C9 (English-only selection): whenever the map has an English sequence,
\* the combined text is the English segments' texts in their order joined by
\* single spaces, truncated to the maximum length and then trimmed; no other
\* language contributes.
EnglishOnly ==
  \A r \in Reqs :
    (nt[r].pc # "idle" /\ nt[r].transcript["en"].kind = "array")
    => nt[r].combinedText =
         Trim(Slice(Join(TextsOf(nt[r].transcript["en"].segs)), MaxCombinedLen))

\* C9 witness: English and Hindi sequences both hold text, and the English
\* text was truncated
EnglishOnlyWitness ==
  \E r \in Reqs :
    /\ nt[r].pc # "idle"
    /\ nt[r].transcript["en"].kind = "array"
    /\ Len(Join(TextsOf(nt[r].transcript["en"].segs))) > MaxCombinedLen
    /\ nt[r].transcript["hi"].kind = "array"
    /\ nt[r].transcript["hi"].segs # <<>>
    /\ nt[r].combinedText # <<>>

\* C10 (preference-order fallback), as claimed: whenever the map has no
\* non-empty English sequence, the combined text is built from the segments
\* of every language whose sequence is present, in the order en, hi, ta, bn,
\* mr.
FallbackWithoutEnglishText ==
  \A r \in Reqs :
    LET t == nt[r].transcript
        segs(l) == IF t[l].kind = "array" THEN t[l].segs ELSE <<>>
    IN (nt[r].pc # "idle" /\ segs("en") = <<>>)
       => nt[r].combinedText =
            Trim(Slice(Join(TextsOf(segs("en") \o segs("hi") \o segs("ta")
                                    \o segs("bn") \o segs("mr"))),
                       MaxCombinedLen))

\* C11 (sentinel handling), as claimed: whenever the retrieval response's
\* answer is "OUT OF CONTEXT", whatever its passages, the Fact Source's result
\* is the combined text with isFinancial = false, isMisleading = false, no
\* claims and no sources.
SentinelHandling ==
  \A r \in Reqs :
    (/\ rag[r].pc = "resolved"
     /\ RagWellFormed(rag[r].response)
     /\ rag[r].response.answer = "OUT OF CONTEXT")
    => rag[r].result =
         [normalizedTranscript |-> nt[r].combinedText, isFinancial |-> FALSE,
          isMisleading |-> FALSE,
          factCheck |-> [claims |-> <<>>, sources |-> <<>>]]

\* C12 (context-hint injection), as claimed: whenever the combined text
\* contains both "gold" and "2015" the context hint is the static 2015
\* gold-price fact, otherwise it is the caller's additionalContext (the empty
\* string for the route), and the prompt the Extractor sends contains the
\* hint verbatim.
ContextHintInjected ==
  \A r \in Reqs :
    nt[r].pc = "awaiting" =>
      /\ nt[r].context =
           IF /\ Includes(nt[r].combinedText, <<"g", "o", "l", "d">>)
              /\ Includes(nt[r].combinedText, <<"2", "0", "1", "5">>)
             THEN StaticGoldFact ELSE <<>>
      /\ Includes(gem[r].prompt, nt[r].context)

\* C13 (a cache hit bypasses the pipeline): whenever the lookup of a request
\* returns while a document is stored for its URL, the request is answered
\* 200 with the stored normalizedTranscript, isFinancial, isMisleading and
\* factCheck, nothing is written, and the request has fetched no transcript
\* and issued no Extractor or Fact Source call; and a request answered from
\* the cache takes no further step.
CacheHitBypasses ==
  [][\A r \in Reqs :
       /\ (rt[r].pc = "findOne" /\ rt'[r] # rt[r] /\ FindOne(rt[r].url) # <<>>)
            => LET stored == FindOne(rt[r].url)[1]
               IN /\ rt'[r].pc = "done"
                  /\ rt'[r].response.status = 200
                  /\ rt'[r].response.data.normalizedTranscript = stored.normalizedTranscript
                  /\ rt'[r].response.data.isFinancial = stored.isFinancial
                  /\ rt'[r].response.data.isMisleading = stored.isMisleading
                  /\ rt'[r].response.data.factCheck = stored.factCheck
                  /\ db' = db
                  /\ nt'[r] = IdleNormalize
                  /\ gem'[r] = IdleGemini
                  /\ rag'[r] = IdleRag
       /\ (/\ rt[r].pc = "done"
           /\ rt[r].response.message = "Verification results retrieved from cache")
            => /\ rt'[r] = rt[r]
               /\ nt'[r] = IdleNormalize
               /\ gem'[r] = IdleGemini
               /\ rag'[r] = IdleRag
               /\ \A k \in DOMAIN db' : k > Len(db) => \E q \in Reqs \ {r} :
                    rt[q].pc = "create" /\ rt'[q].pc = "done"]_vars

\* C13 witness: the first request stored a verdict, and the second request,
\* for the same URL, was answered with it from the cache
CacheHitWitness ==
  /\ Len(db) = 1
  /\ rt[1].pc = "done"
  /\ rt[1].response.message = "Video verified successfully"
  /\ rt[2].pc = "done"
  /\ rt[2].url = rt[1].url
  /\ rt[2].response.message = "Verification results retrieved from cache"
  /\ rt[2].response.data = rt[1].response.data
  /\ rt[2].response.data.factCheck.claims # <<>>
  /\ nt[2] = IdleNormalize

\* C14 (duplicate-request race): nothing limits the pipeline runs or the
\* writes per URL. Every request whose lookup missed and whose transcript has
\* text runs its own Extractor and Fact Source calls, whatever the other
\* requests do, and on a collection that started empty the documents stored
\* for a URL are as many as the requests for it answered "Video verified
\* successfully": each of them wrote its own.
DuplicateRequestRace ==
  /\ \A r \in Reqs :
       rt[r].pc \in {"pipeline", "create"} =>
         /\ nt[r].pc # "idle"
         /\ gem[r].attempts >= 1
         /\ rag[r].attempts >= 1
  /\ \A u \in URLs :
       Cardinality({k \in DOMAIN db : db[k].videoURL = u})
         = Cardinality({r \in Reqs :
                          /\ rt[r].pc = "done"
                          /\ rt[r].url = u
                          /\ rt[r].response.message = "Video verified successfully"})

\* C14 witness: two requests for one URL both missed the lookup, both ran the
\* two calls, and both stored a document for the URL
DuplicateRequestRaceWitness ==
  /\ rt[1].url = rt[2].url
  /\ \A r \in {1, 2} :
       /\ rt[r].pc = "done"
       /\ rt[r].response.message = "Video verified successfully"
       /\ gem[r].pc = "resolved"
       /\ rag[r].pc = "resolved"
  /\ Len(db) = 2
  /\ db[1].videoURL = db[2].videoURL
  /\ db[1].factCheck # db[2].factCheck

\* C15 (bounded sequential retry): in every step and for each of the two
\* components of a request, the attempts never exceed 1 + Retries; an attempt
\* is issued only at the dispatch or after the previous attempt has failed,
\* one at a time; once a response has arrived or the call has settled no
\* further attempt is issued; and the call settles without a response only
\* when the attempt that failed was the last of the 1 + Retries.
BoundedSequentialRetry ==
  [][\A r \in Reqs :
       LET Law(old, new, none) ==
             /\ new.attempts <= 1 + Retries
             /\ new.attempts # old.attempts =>
                  /\ new.attempts = old.attempts + 1
                  /\ new.pc = "inflight"
                  /\ \/ old.pc = "idle" /\ old.attempts = 0
                     \/ old.pc = "backoff"
             /\ new.pc = "backoff" => old.pc \in {"inflight", "backoff"}
             /\ (old.pc = "inflight" /\ new.pc = "backoff") => old.attempts <= Retries
             /\ old.pc \in {"resolved", "rejected"} => new = old
             /\ (old.pc = "inflight" /\ new.pc \in {"resolved", "rejected"}
                 /\ new.response = none)
                  => old.attempts = 1 + Retries
       IN /\ Law(gem[r], gem'[r], NoGeminiResponse)
          /\ Law(rag[r], rag'[r], NoRagResponse)]_vars

\* C15 witness: the Extractor's call failed on its last attempt, and the Fact
\* Source's call was answered on its third
BoundedSequentialRetryWitness ==
  \E r \in Reqs :
    /\ gem[r].pc = "rejected"
    /\ gem[r].attempts = 1 + Retries
    /\ gem[r].response = NoGeminiResponse
    /\ rag[r].pc = "resolved"
    /\ rag[r].attempts = 3
    /\ RagWellFormed(rag[r].response)

\* C16 (one log entry per Extractor failure), as claimed: in a run where the
\* Extractor's call failed on all 1 + Retries attempts and the Fact Source
\* succeeded, the error log holds exactly one entry once normalizeTranscript
\* has returned.
ExtractorFailureLoggedOnce ==
  \A r \in Reqs :
    (/\ gem[r].pc = "rejected"
     /\ gem[r].attempts = 1 + Retries
     /\ gem[r].response = NoGeminiResponse
     /\ rag[r].pc = "resolved"
     /\ RagWellFormed(rag[r].response)
     /\ nt[r].pc = "returned")
    => Len(SelectSeq(log, LAMBDA e : e.transcript = nt[r].combinedText)) = 1

\* C17 (wholesale choice with Extractor fallback), as claimed: whenever the
\* Extractor has succeeded and normalizeTranscript has returned, the verdict's
\* normalizedTranscript is the Extractor's; its claims are exactly the Fact
\* Source's or exactly the Extractor's; and when the Fact Source's result is
\* not financial or has no claims, the verdict's isFinancial, claims and
\* sources are exactly the Extractor's.
WholesaleChoice ==
  \A r \in Reqs :
    (gem[r].pc = "resolved" /\ nt[r].pc = "returned")
    => LET final == nt[r].result
           extractor == gem[r].result
           factSource == rag[r].result
       IN /\ final.normalizedTranscript = extractor.normalizedTranscript
          /\ \/ final.factCheck.claims = extractor.factCheck.claims
             \/ /\ rag[r].pc = "resolved"
                /\ final.factCheck.claims = factSource.factCheck.claims
          /\ (rag[r].pc = "resolved"
              /\ (~factSource.isFinancial \/ Len(factSource.factCheck.claims) = 0))
               => /\ final.isFinancial = extractor.isFinancial
                  /\ final.factCheck.claims = extractor.factCheck.claims
                  /\ final.factCheck.sources = extractor.factCheck.sources

\* C18 (determinism under interleaving), as claimed: whenever two runs of the
\* pipeline on the same combined text have both returned a verdict, all their
\* calls have settled, and the Extractor's outcome (the same response, or a
\* failure) and the retrieval's outcome (the same response, or a failure)
\* are the same in both, the two verdicts are identical.
DeterministicVerdict ==
  LET settled(c) == c.pc \in {"resolved", "rejected"}
      sameExtractor ==
        IF GeminiParses(gem[1].response)
          THEN gem[2].response = gem[1].response
          ELSE ~GeminiParses(gem[2].response)
      sameRetrieval ==
        IF RagWellFormed(rag[1].response)
          THEN rag[2].response = rag[1].response
          ELSE ~RagWellFormed(rag[2].response)
  IN (/\ nt[1].pc = "returned" /\ nt[2].pc = "returned"
      /\ nt[1].combinedText = nt[2].combinedText
      /\ settled(gem[1]) /\ settled(gem[2])
      /\ settled(rag[1]) /\ settled(rag[2])
      /\ sameExtractor
      /\ sameRetrieval)
     => nt[1].result = nt[2].result

\* C19 (Fact Source precedence forces a non-misleading verdict): every claim
\* of a result the Fact Source returned has isAccurate = true, and whenever
\* the Fact Source's result is financial with at least one claim, the verdict
\* normalizeTranscript returned has isMisleading = false, whatever claims the
\* Extractor returned.
FactSourceNeverMisleading ==
  \A r \in Reqs :
    /\ rag[r].pc = "resolved" =>
         \A i \in DOMAIN rag[r].result.factCheck.claims :
           rag[r].result.factCheck.claims[i].isAccurate = TRUE
    /\ (/\ rag[r].pc = "resolved"
        /\ rag[r].result.isFinancial
        /\ Len(rag[r].result.factCheck.claims) >= 1
        /\ nt[r].pc = "returned")
         => nt[r].result.isMisleading = FALSE

\* C19 witness: the Extractor returned a claim with isAccurate = false, the
\* Fact Source won the precedence, and the verdict is not misleading
FactSourceNeverMisleadingWitness ==
  \E r \in Reqs :
    /\ gem[r].pc = "resolved"
    /\ \E i \in DOMAIN gem[r].result.factCheck.claims :
         gem[r].result.factCheck.claims[i].isAccurate = FALSE
    /\ gem[r].result.isMisleading = TRUE
    /\ rag[r].pc = "resolved"
    /\ rag[r].result.isFinancial
    /\ nt[r].pc = "returned"
    /\ nt[r].result.factCheck.claims = rag[r].result.factCheck.claims
    /\ Len(nt[r].result.factCheck.claims) = 2
    /\ nt[r].result.isMisleading = FALSE

\* C20 (failure verdicts are cached permanently), as claimed: whenever the
\* Extractor failed during a request and the request has been answered, the
\* failure default on the combined text (non-financial, no claims) is stored
\* for its URL; and every request answered from the cache carries the
\* verdict stored for its URL and has run no pipeline of its own.
FailureVerdictCached ==
  \A r \in Reqs :
    /\ (gem[r].pc = "rejected" /\ rt[r].pc = "done")
         => \E k \in DOMAIN db :
              /\ db[k].videoURL = rt[r].url
              /\ db[k].normalizedTranscript = nt[r].combinedText
              /\ db[k].isFinancial = FALSE
              /\ db[k].isMisleading = FALSE
              /\ db[k].factCheck = [claims |-> <<>>, sources |-> <<>>]
    /\ (/\ rt[r].pc = "done"
        /\ rt[r].response.message = "Verification results retrieved from cache")
         => /\ FindOne(rt[r].url) # <<>>
            /\ rt[r].response.status = 200
            /\ rt[r].response.data = ResponseData(FindOne(rt[r].url)[1])
            /\ nt[r].pc = "idle"
            /\ gem[r].attempts = 0
            /\ rag[r].attempts = 0

\* C21 (single in-flight verification in the popup), as claimed: at most one
\* call of verifyVideo started from the popup is awaiting its fetch at any
\* time.
SingleInFlight ==
  Cardinality({c \in Calls : popup.calls[c].pc = "fetch"}) <= 1

====
